---- MODULE Spec2Model ----
(***************************************************************************)
(* Model of utilities.py: seven pure functions (to_snake_case,             *)
(* to_camel_case, remove_punctuation, is_palindrome, fibonacci, factorial, *)
(* is_prime).  One call is made from the idle state; loops are executed    *)
(* one iteration per step so that loop invariants can be stated.           *)
(*                                                                         *)
(* Characters are representatives of the classes that Python's str         *)
(* methods distinguish:                                                    *)
(*   "a"      ASCII lowercase letter          "A"  ASCII uppercase letter  *)
(*   "1"      digit                           " "  space                   *)
(*   "-"      hyphen (punctuation)            "_"  underscore (punctuation)*)
(*   "!"      any other ASCII punctuation                                  *)
(*   "MATH_A" U+1D400, uppercase letter with no lowercase mapping          *)
(*   "I_DOT"  U+0130, uppercase letter whose lowercase is "i" + U+0307     *)
(*   "DOT"    U+0307, combining mark: not alphanumeric, not punctuation,   *)
(*            case-ignorable                                               *)
(*   "SIGMA"  U+03A3, lowercased to "sigma" or, in final position of a     *)
(*            word, to "fsigma"                                            *)
(*   "sigma"  U+03C3                          "fsigma" U+03C2              *)
(*   "i","I"  appear only as results of case mappings                      *)
(***************************************************************************)
EXTENDS Integers, Sequences, FiniteSets, TLC

\* ---------------------------------------------------------------- bounds
MaxLen == 3
NegN == 3
MaxFibN == 14
MaxFactN == 7
MaxPrimeN == 180

InputChars ==
    {"a", "A", "1", " ", "-", "_", "!", "MATH_A", "I_DOT", "DOT",
     "SIGMA", "sigma", "fsigma"}

RECURSIVE TextsOfLen(_)
TextsOfLen(k) ==
    IF k = 0 THEN {<<>>}
    ELSE {Append(s, c) : s \in TextsOfLen(k - 1), c \in InputChars}

Texts == UNION {TextsOfLen(k) : k \in 0..MaxLen}

\* ------------------------------------------------- character classification
\* str.isupper() on one character
IsUpper(c) == c \in {"A", "I", "MATH_A", "I_DOT", "SIGMA"}

\* str.isalnum() on one character
IsAlnum(c) ==
    c \in {"a", "i", "A", "I", "1", "MATH_A", "I_DOT", "SIGMA", "sigma",
           "fsigma"}

\* string.punctuation
Punctuation == {"-", "_", "!"}

\* Unicode Cased / Case_Ignorable, consulted by str.lower() for U+03A3
IsCased(c) ==
    c \in {"a", "i", "A", "I", "MATH_A", "I_DOT", "SIGMA", "sigma", "fsigma"}

IsCaseIgnorable(c) == c = "DOT"

\* char.lower() of a one-character string
CharLower(c) ==
    CASE c = "A" -> <<"a">>
      [] c = "I" -> <<"i">>
      [] c = "I_DOT" -> <<"i", "DOT">>
      [] c = "SIGMA" -> <<"sigma">>
      [] OTHER -> <<c>>

\* title-case mapping of the first character in str.capitalize()
CharTitle(c) ==
    CASE c = "a" -> <<"A">>
      [] c = "i" -> <<"I">>
      [] c = "sigma" -> <<"SIGMA">>
      [] c = "fsigma" -> <<"SIGMA">>
      [] OTHER -> <<c>>

SetMax(S) == CHOOSE x \in S : \A y \in S : y <= x
SetMin(S) == CHOOSE x \in S : \A y \in S : x <= y

\* Final_Sigma context of position i in s
FinalSigma(s, i) ==
    LET before == {j \in 1..(i - 1) : ~IsCaseIgnorable(s[j])}
        after == {j \in (i + 1)..Len(s) : ~IsCaseIgnorable(s[j])}
    IN  /\ before # {}
        /\ IsCased(s[SetMax(before)])
        /\ (after = {} \/ ~IsCased(s[SetMin(after)]))

\* lowercase mapping of position i of s inside str.lower()/str.capitalize()
LowerAt(s, i) ==
    IF s[i] = "SIGMA"
    THEN IF FinalSigma(s, i) THEN <<"fsigma">> ELSE <<"sigma">>
    ELSE CharLower(s[i])

RECURSIVE LowerFrom(_, _)
LowerFrom(s, i) ==
    IF i > Len(s) THEN <<>> ELSE LowerAt(s, i) \o LowerFrom(s, i + 1)

\* str.lower()
StrLower(s) == LowerFrom(s, 1)

\* str.capitalize()
Capitalize(s) ==
    IF s = <<>> THEN <<>> ELSE CharTitle(s[1]) \o LowerFrom(s, 2)

\* cleaned[::-1]
RECURSIVE Reverse(_)
Reverse(s) ==
    IF s = <<>> THEN <<>> ELSE Append(Reverse(Tail(s)), Head(s))

\* str.strip('_')
RECURSIVE LStrip(_)
LStrip(s) ==
    IF s # <<>> /\ Head(s) = "_" THEN LStrip(Tail(s)) ELSE s

StripUnderscores_LeftOnly(s) == LStrip(s)

StripUnderscores(s) == Reverse(LStrip(Reverse(LStrip(s))))

\* text.translate(translator): characters of string.punctuation are deleted
RemovePunctuation_FirstOnly(t) ==
    IF \E j \in 1..Len(t) : t[j] \in Punctuation
    THEN LET j == SetMin({x \in 1..Len(t) : t[x] \in Punctuation})
         IN  SubSeq(t, 1, j - 1) \o SubSeq(t, j + 1, Len(t))
    ELSE t

RECURSIVE RemovePunctuation(_)
RemovePunctuation(t) ==
    IF t = <<>> THEN <<>>
    ELSE IF Head(t) \in Punctuation THEN RemovePunctuation(Tail(t))
    ELSE <<Head(t)>> \o RemovePunctuation(Tail(t))

\* .replace(' ', '')
RECURSIVE RemoveSpaces(_)
RemoveSpaces(t) ==
    IF t = <<>> THEN <<>>
    ELSE IF Head(t) = " " THEN RemoveSpaces(Tail(t))
    ELSE <<Head(t)>> \o RemoveSpaces(Tail(t))

\* cleaned text of is_palindrome
Cleaned(t) == StrLower(RemoveSpaces(RemovePunctuation(t)))

IsPalindrome(t) == Cleaned(t) = Reverse(Cleaned(t))

\* first.lower() + ''.join(word.capitalize() for word in rest)
RECURSIVE JoinCapitalized(_)
JoinCapitalized(ws) ==
    IF ws = <<>> THEN <<>>
    ELSE Capitalize(Head(ws)) \o JoinCapitalized(Tail(ws))

CamelJoin_NoLower(ps) == Head(ps) \o JoinCapitalized(Tail(ps))

CamelJoin(ps) == StrLower(Head(ps)) \o JoinCapitalized(Tail(ps))

\* ------------------------------------------------------------------ state
VARIABLES
    pc,             \* "idle", "loop" (inside a function's loop) or "done"
    fn,             \* the function that was called
    text,           \* text argument
    idx,            \* number of characters of text already scanned
    result,         \* to_snake_case: list of emitted characters
    prev_is_lower,  \* to_snake_case
    parts,          \* to_camel_case
    current,        \* to_camel_case
    n,              \* integer argument
    a,              \* fibonacci
    b,              \* fibonacci
    k,              \* fibonacci: iterations of range(n) already done
    fact_result,    \* factorial: result
    i,              \* factorial / is_prime loop variable
    outcome,        \* "none", "returned" or "ValueError"
    ret_text,       \* returned str
    ret_int,        \* returned int
    ret_bool        \* returned bool

tvars == <<text, idx, result, prev_is_lower, parts, current>>
nvars == <<n, a, b, k, fact_result, i>>
rvars == <<ret_text, ret_int, ret_bool>>
vars == <<pc, fn, tvars, nvars, outcome, rvars>>

Ints(max) == (0 - NegN)..max

Init ==
    /\ pc = "idle"
    /\ fn = "none"
    /\ text = <<>>
    /\ idx = 0
    /\ result = <<>>
    /\ prev_is_lower = FALSE
    /\ parts = <<>>
    /\ current = <<>>
    /\ n = 0
    /\ a = 0
    /\ b = 0
    /\ k = 0
    /\ fact_result = 0
    /\ i = 0
    /\ outcome = "none"
    /\ ret_text = <<>>
    /\ ret_int = 0
    /\ ret_bool = FALSE

\* ----------------------------------------------------------- to_snake_case
Call_to_snake_case ==
    /\ pc = "idle"
    /\ \E t \in Texts : text' = t
    /\ fn' = "to_snake_case"
    /\ pc' = "loop"
    /\ result' = <<>>
    /\ prev_is_lower' = FALSE
    /\ idx' = 0
    /\ UNCHANGED <<parts, current, nvars, outcome, rvars>>

\* char in (' ', '-')
SnakeSeparator ==
    /\ pc = "loop" /\ fn = "to_snake_case" /\ idx < Len(text)
    /\ text[idx + 1] \in {" ", "-"}
    /\ result' = IF result # <<>> /\ result[Len(result)] # "_"
                 THEN Append(result, "_") ELSE result
    /\ prev_is_lower' = FALSE
    /\ idx' = idx + 1
    /\ UNCHANGED <<pc, fn, text, parts, current, nvars, outcome, rvars>>

\* char.isupper()
SnakeUpper ==
    /\ pc = "loop" /\ fn = "to_snake_case" /\ idx < Len(text)
    /\ text[idx + 1] \notin {" ", "-"}
    /\ IsUpper(text[idx + 1])
    /\ result' = (IF prev_is_lower THEN Append(result, "_") ELSE result)
                    \o CharLower(text[idx + 1])
    /\ prev_is_lower' = FALSE
    /\ idx' = idx + 1
    /\ UNCHANGED <<pc, fn, text, parts, current, nvars, outcome, rvars>>

\* else
SnakeOther ==
    /\ pc = "loop" /\ fn = "to_snake_case" /\ idx < Len(text)
    /\ text[idx + 1] \notin {" ", "-"}
    /\ ~IsUpper(text[idx + 1])
    /\ result' = Append(result, text[idx + 1])
    /\ prev_is_lower' = TRUE
    /\ idx' = idx + 1
    /\ UNCHANGED <<pc, fn, text, parts, current, nvars, outcome, rvars>>

SnakeReturn ==
    /\ pc = "loop" /\ fn = "to_snake_case" /\ idx = Len(text)
    /\ ret_text' = StripUnderscores(result)
    /\ outcome' = "returned"
    /\ pc' = "done"
    /\ UNCHANGED <<fn, tvars, nvars, ret_int, ret_bool>>

\* ----------------------------------------------------------- to_camel_case
Call_to_camel_case ==
    /\ pc = "idle"
    /\ \E t \in Texts : text' = t
    /\ fn' = "to_camel_case"
    /\ pc' = "loop"
    /\ parts' = <<>>
    /\ current' = <<>>
    /\ idx' = 0
    /\ UNCHANGED <<result, prev_is_lower, nvars, outcome, rvars>>

\* ch.isalnum()
CamelAlnum ==
    /\ pc = "loop" /\ fn = "to_camel_case" /\ idx < Len(text)
    /\ IsAlnum(text[idx + 1])
    /\ current' = Append(current, text[idx + 1])
    /\ idx' = idx + 1
    /\ UNCHANGED <<pc, fn, text, result, prev_is_lower, parts, nvars,
                   outcome, rvars>>

\* else
CamelSeparator ==
    /\ pc = "loop" /\ fn = "to_camel_case" /\ idx < Len(text)
    /\ ~IsAlnum(text[idx + 1])
    /\ IF current # <<>>
       THEN parts' = Append(parts, current) /\ current' = <<>>
       ELSE UNCHANGED <<parts, current>>
    /\ idx' = idx + 1
    /\ UNCHANGED <<pc, fn, text, result, prev_is_lower, nvars, outcome,
                   rvars>>

CamelReturn ==
    /\ pc = "loop" /\ fn = "to_camel_case" /\ idx = Len(text)
    /\ LET ps == IF current # <<>> THEN Append(parts, current) ELSE parts
       IN  /\ parts' = ps
           /\ current' = <<>>
           /\ ret_text' = IF ps = <<>> THEN <<>> ELSE CamelJoin(ps)
    /\ outcome' = "returned"
    /\ pc' = "done"
    /\ UNCHANGED <<fn, text, idx, result, prev_is_lower, nvars, ret_int,
                   ret_bool>>

\* ------------------------------------------- remove_punctuation, is_palindrome
Call_remove_punctuation ==
    /\ pc = "idle"
    /\ \E t \in Texts : text' = t /\ ret_text' = RemovePunctuation(t)
    /\ fn' = "remove_punctuation"
    /\ outcome' = "returned"
    /\ pc' = "done"
    /\ UNCHANGED <<idx, result, prev_is_lower, parts, current, nvars,
                   ret_int, ret_bool>>

Call_is_palindrome ==
    /\ pc = "idle"
    /\ \E t \in Texts : text' = t /\ ret_bool' = IsPalindrome(t)
    /\ fn' = "is_palindrome"
    /\ outcome' = "returned"
    /\ pc' = "done"
    /\ UNCHANGED <<idx, result, prev_is_lower, parts, current, nvars,
                   ret_text, ret_int>>

\* --------------------------------------------------------------- fibonacci
FibInvalid_OffByOne(x) == x <= 0

FibInvalid(x) == x < 0

FibUpdate_Sequential(x, y) == <<y, y + y>>

\* a, b = b, a + b
FibUpdate(x, y) == <<y, x + y>>

Call_fibonacci ==
    /\ pc = "idle"
    /\ \E x \in Ints(MaxFibN) :
        /\ n' = x
        /\ IF FibInvalid(x)
           THEN /\ outcome' = "ValueError"
                /\ pc' = "done"
                /\ UNCHANGED <<a, b, k>>
           ELSE /\ a' = 0
                /\ b' = 1
                /\ k' = 0
                /\ pc' = "loop"
                /\ UNCHANGED outcome
    /\ fn' = "fibonacci"
    /\ UNCHANGED <<tvars, fact_result, i, rvars>>

FibStep ==
    /\ pc = "loop" /\ fn = "fibonacci" /\ k < n
    /\ a' = FibUpdate(a, b)[1]
    /\ b' = FibUpdate(a, b)[2]
    /\ k' = k + 1
    /\ UNCHANGED <<pc, fn, tvars, n, fact_result, i, outcome, rvars>>

FibReturn ==
    /\ pc = "loop" /\ fn = "fibonacci" /\ ~(k < n)
    /\ ret_int' = a
    /\ outcome' = "returned"
    /\ pc' = "done"
    /\ UNCHANGED <<fn, tvars, nvars, ret_text, ret_bool>>

\* --------------------------------------------------------------- factorial
FactInvalid(x) == x < 0

FactLoopCond_Exclusive(j, x) == j < x

\* i in range(2, n + 1)
FactLoopCond(j, x) == j < x + 1

Call_factorial ==
    /\ pc = "idle"
    /\ \E x \in Ints(MaxFactN) :
        /\ n' = x
        /\ IF FactInvalid(x)
           THEN /\ outcome' = "ValueError"
                /\ pc' = "done"
                /\ UNCHANGED <<fact_result, i>>
           ELSE /\ fact_result' = 1
                /\ i' = 2
                /\ pc' = "loop"
                /\ UNCHANGED outcome
    /\ fn' = "factorial"
    /\ UNCHANGED <<tvars, a, b, k, rvars>>

FactStep ==
    /\ pc = "loop" /\ fn = "factorial" /\ FactLoopCond(i, n)
    /\ fact_result' = fact_result * i
    /\ i' = i + 1
    /\ UNCHANGED <<pc, fn, tvars, n, a, b, k, outcome, rvars>>

FactReturn ==
    /\ pc = "loop" /\ fn = "factorial" /\ ~FactLoopCond(i, n)
    /\ ret_int' = fact_result
    /\ outcome' = "returned"
    /\ pc' = "done"
    /\ UNCHANGED <<fn, tvars, nvars, ret_text, ret_bool>>

\* ---------------------------------------------------------------- is_prime
PrimeLoopCond_Strict(j, x) == j * j < x

\* while i * i <= n
PrimeLoopCond(j, x) == j * j <= x

Call_is_prime ==
    /\ pc = "idle"
    /\ \E x \in Ints(MaxPrimeN) :
        /\ n' = x
        /\ IF x <= 1
           THEN ret_bool' = FALSE /\ outcome' = "returned" /\ pc' = "done"
                /\ UNCHANGED i
           ELSE IF x <= 3
           THEN ret_bool' = TRUE /\ outcome' = "returned" /\ pc' = "done"
                /\ UNCHANGED i
           ELSE IF x % 2 = 0 \/ x % 3 = 0
           THEN ret_bool' = FALSE /\ outcome' = "returned" /\ pc' = "done"
                /\ UNCHANGED i
           ELSE i' = 5 /\ pc' = "loop" /\ UNCHANGED <<ret_bool, outcome>>
    /\ fn' = "is_prime"
    /\ UNCHANGED <<tvars, a, b, k, fact_result, ret_text, ret_int>>

\* loop body when a divisor is found: return False
PrimeDivisor ==
    /\ pc = "loop" /\ fn = "is_prime" /\ PrimeLoopCond(i, n)
    /\ (n % i = 0 \/ n % (i + 2) = 0)
    /\ ret_bool' = FALSE
    /\ outcome' = "returned"
    /\ pc' = "done"
    /\ UNCHANGED <<fn, tvars, nvars, ret_text, ret_int>>

\* loop body otherwise: i += 6
PrimeStep ==
    /\ pc = "loop" /\ fn = "is_prime" /\ PrimeLoopCond(i, n)
    /\ ~(n % i = 0 \/ n % (i + 2) = 0)
    /\ i' = i + 6
    /\ UNCHANGED <<pc, fn, tvars, n, a, b, k, fact_result, outcome, rvars>>

PrimeReturn ==
    /\ pc = "loop" /\ fn = "is_prime" /\ ~PrimeLoopCond(i, n)
    /\ ret_bool' = TRUE
    /\ outcome' = "returned"
    /\ pc' = "done"
    /\ UNCHANGED <<fn, tvars, nvars, ret_text, ret_int>>

\* ------------------------------------------------------------ specification
Next ==
    \/ Call_to_snake_case \/ SnakeSeparator \/ SnakeUpper \/ SnakeOther
    \/ SnakeReturn
    \/ Call_to_camel_case \/ CamelAlnum \/ CamelSeparator \/ CamelReturn
    \/ Call_remove_punctuation
    \/ Call_is_palindrome
    \/ Call_fibonacci \/ FibStep \/ FibReturn
    \/ Call_factorial \/ FactStep \/ FactReturn
    \/ Call_is_prime \/ PrimeDivisor \/ PrimeStep \/ PrimeReturn

Spec == Init /\ [][Next]_vars

\* ------------------------------------------------------- reference notions
\* str.islower() on one character
IsLower(c) == c \in {"a", "i", "sigma", "fsigma"}

\* an uppercase letter for which a lowercase form exists
HasLowerForm(c) == IsUpper(c) /\ CharLower(c) # <<c>>

Chars(s) == {s[j] : j \in 1..Len(s)}

HasDoubleUnderscore(s) ==
    \E j \in 1..(Len(s) - 1) : s[j] = "_" /\ s[j + 1] = "_"

NotPunct(c) == c \notin Punctuation

IsPrimeDef(x) == x > 1 /\ \A d \in 2..(x - 1) : x % d # 0

RECURSIVE Fib(_)
Fib(m) == IF m = 0 THEN 0 ELSE IF m = 1 THEN 1 ELSE Fib(m - 1) + Fib(m - 2)

RECURSIVE Fact(_)
Fact(m) == IF m = 0 THEN 1 ELSE m * Fact(m - 1)

Returned(f) == pc = "done" /\ fn = f /\ outcome = "returned"

\* ------------------------------------------------------------------ claims

\* C1 (as stated): for every text, to_snake_case(text) contains no uppercase
\* letter and neither starts nor ends with an underscore.
C1_NoUpperNoEdgeUnderscore ==
    Returned("to_snake_case") =>
        /\ \A c \in Chars(ret_text) : ~IsUpper(c)
        /\ ret_text # <<>> =>
              ret_text[1] # "_" /\ ret_text[Len(ret_text)] # "_"

\* C1 (amended): to_snake_case(text) contains no uppercase letter that has a
\* lowercase form (an uppercase character without lowercase mapping is emitted
\* unchanged) and neither starts nor ends with an underscore.
C1_NoLowerableUpperNoEdgeUnderscore ==
    Returned("to_snake_case") =>
        /\ \A c \in Chars(ret_text) : ~HasLowerForm(c)
        /\ ret_text # <<>> =>
              ret_text[1] # "_" /\ ret_text[Len(ret_text)] # "_"

C1_Witness ==
    /\ Returned("to_snake_case")
    /\ \E c \in Chars(text) : HasLowerForm(c)
    /\ ret_text # <<>>
    /\ Len(ret_text) < Len(result)

\* C2: to_snake_case never introduces two consecutive underscores: its output
\* has two adjacent underscores only if the input already had two adjacent
\* underscores.
C2_NoIntroducedDoubleUnderscore ==
    Returned("to_snake_case") =>
        (HasDoubleUnderscore(ret_text) => HasDoubleUnderscore(text))

\* C3 (as stated): to_camel_case(text) contains no non-alphanumeric character,
\* its first character (if any) is lowercase, and it is empty when the text
\* has no alphanumeric character.
C3_NoSeparatorFirstLower ==
    Returned("to_camel_case") =>
        /\ \A c \in Chars(ret_text) : IsAlnum(c)
        /\ ret_text # <<>> => IsLower(ret_text[1])
        /\ (\A c \in Chars(text) : ~IsAlnum(c)) => ret_text = <<>>

\* C3 (amended): to_camel_case(text) contains no separator character of the
\* text: each of its characters is alphanumeric or is a combining mark produced
\* by the case mapping of an alphanumeric character (U+0130 lowercases to
\* "i" + U+0307); when the result is non-empty its first character is not an
\* uppercase letter that has a lowercase form (it is a lowercase letter, a
\* digit, or an uppercase character without lowercase mapping); the result is
\* empty when the text has no alphanumeric character.
C3_NoSeparatorFirstNotLowerableUpper ==
    Returned("to_camel_case") =>
        /\ \A c \in Chars(ret_text) :
              IsAlnum(c) \/ (c = "DOT" /\ "I_DOT" \in Chars(text))
        /\ Chars(ret_text) \cap {" ", "-", "_", "!"} = {}
        /\ ret_text # <<>> => ~HasLowerForm(ret_text[1])
        /\ (\A c \in Chars(text) : ~IsAlnum(c)) => ret_text = <<>>

C3_Witness ==
    /\ Returned("to_camel_case")
    /\ Len(parts) >= 2
    /\ text # <<>> /\ HasLowerForm(text[1])
    /\ \E c \in Chars(text) : ~IsAlnum(c)
    /\ ret_text # <<>>

\* C4: is_prime(n) returns true exactly when n is prime (n > 1 with no
\* divisor d, 1 < d < n), for every integer n.
C4_IsPrimeCorrect ==
    Returned("is_prime") => (ret_bool <=> IsPrimeDef(n))

\* a square of a prime found at the loop boundary i * i = n
C4_Witness ==
    /\ Returned("is_prime")
    /\ i >= 5 /\ i * i = n
    /\ ret_bool = FALSE

\* C5: after k updates the accumulators hold (fib(k), fib(k+1)), the loop makes
\* exactly n updates and fibonacci(n) returns fib(n), where fib(0) = 0,
\* fib(1) = 1 and fib(m) = fib(m-1) + fib(m-2).
C5_FibonacciCorrect ==
    /\ (fn = "fibonacci" /\ pc = "loop") =>
          a = Fib(k) /\ b = Fib(k + 1) /\ k <= n
    /\ Returned("fibonacci") => k = n /\ ret_int = Fib(n)

C5_Witness ==
    /\ Returned("fibonacci")
    /\ n >= 5 /\ k = n
    /\ ret_int = Fib(n - 1) + Fib(n - 2)

\* C6: fibonacci(n) and factorial(n) fail with ValueError exactly when n < 0,
\* before any computation and without returning a value; all other functions
\* return a result for every input and never fail.
C6_ErrorHandling ==
    /\ outcome = "ValueError" =>
          /\ fn \in {"fibonacci", "factorial"} /\ n < 0 /\ pc = "done"
          /\ a = 0 /\ b = 0 /\ k = 0 /\ fact_result = 0 /\ i = 0
          /\ ret_int = 0
    /\ (fn \in {"fibonacci", "factorial"} /\ n < 0) => outcome = "ValueError"
    /\ (fn \in {"fibonacci", "factorial"} /\ n >= 0 /\ pc = "done") =>
          outcome = "returned"
    /\ (fn \in {"to_snake_case", "to_camel_case", "remove_punctuation",
                "is_palindrome", "is_prime"} /\ pc = "done") =>
          outcome = "returned"
    /\ pc = "loop" => outcome = "none" /\ ENABLED Next

C6_Witness ==
    /\ fn = "factorial" /\ n < 0
    /\ outcome = "ValueError"
    /\ pc = "done"

\* C7: for every n >= 0, factorial(n) is the product of 1..n: factorial(0) = 1
\* and factorial(n) = n * factorial(n-1).
C7_FactorialCorrect ==
    Returned("factorial") => ret_int = Fact(n)

C7_Witness ==
    /\ Returned("factorial")
    /\ n = 5 /\ ret_int = 120

\* C8: for every text, is_palindrome(text) = is_palindrome(reverse(text)).
C8_PalindromeReverseSymmetric ==
    Returned("is_palindrome") => (ret_bool <=> IsPalindrome(Reverse(text)))

\* C9: remove_punctuation is idempotent, its output being exactly the
\* characters of the text that are not ASCII punctuation, in their order.
C9_RemovePunctuationIdempotent ==
    Returned("remove_punctuation") =>
        /\ RemovePunctuation(ret_text) = ret_text
        /\ ret_text = SelectSeq(text, NotPunct)

C9_Witness ==
    /\ Returned("remove_punctuation")
    /\ Len(text) - Len(ret_text) >= 2
    /\ ret_text # <<>>

\* C10: during the scan of to_snake_case, prev_is_lower is true exactly when
\* the previously processed character was a lowercase letter, so that an
\* underscore precedes an uppercase letter iff it follows a lowercase letter.
C10_PrevIsLowerExact ==
    (fn = "to_snake_case" /\ pc = "loop") =>
        (prev_is_lower <=> (idx > 0 /\ IsLower(text[idx])))

====
